---- MODULE Spec2Model ----
(***************************************************************************)
(* A model of package snetlog (src/log.go): a logger with a console sink,  *)
(* a buffered file sink drained by a background flush task, and a remote   *)
(* sink, behind a facade of 14 severity methods.                           *)
(*                                                                         *)
(* Text is modelled as TLA+ strings, built the way the code builds it.     *)
(* The file buffer, the destination file and the console streams are       *)
(* sequences of segments: one segment per write call of the code, holding  *)
(* the text written and the log call that wrote it.  The bytes of a buffer *)
(* are the concatenation of its segments' texts (Bytes).                   *)
(***************************************************************************)
EXTENDS Integers, Sequences, FiniteSets, TLC

(***************************************************************************)
(* Bounds of the model.                                                    *)
(***************************************************************************)
\* Number of concurrent callers of the facade.
MaxCallers == 2
\* Number of log calls made in a run, by all callers together.
MaxCalls == 2
\* The clock runs over the milliseconds 0..MaxClock after BaseInstant.
MaxClock == 1

(***************************************************************************)
(* Severity & formatting                                                   *)
(***************************************************************************)
\* The severities of cloud.google.com/go/logging that the package uses.
Severities ==
  {"Debug", "Info", "Notice", "Warning", "Error", "Alert", "Emergency"}

\* var formats = map[logging.Severity]string{...}; a missing key reads "".
formats(severity) ==
  CASE severity = "Debug"     -> "[TRACE] "
    [] severity = "Info"      -> "[INFO] "
    [] severity = "Notice"    -> "[NOTICE] "
    [] severity = "Warning"   -> "[WARN] "
    [] severity = "Error"     -> "[ERROR] "
    [] severity = "Alert"     -> "[ALERT] "
    [] severity = "Emergency" -> "[EMERGENCY] "
    [] OTHER                  -> ""

\* One decimal digit.
Digit(d) ==
  CASE d = 0 -> "0" [] d = 1 -> "1" [] d = 2 -> "2" [] d = 3 -> "3"
    [] d = 4 -> "4" [] d = 5 -> "5" [] d = 6 -> "6" [] d = 7 -> "7"
    [] d = 8 -> "8" [] d = 9 -> "9"

\* The decimal digits of a natural number, without padding.
RECURSIVE Digits(_)
Digits(n) == IF n < 10 THEN Digit(n) ELSE Digits(n \div 10) \o Digit(n % 10)

\* w zeros.
RECURSIVE Zeros(_)
Zeros(w) == IF w <= 0 THEN "" ELSE "0" \o Zeros(w - 1)

\* fmt's %d.
FmtD(n) == IF n < 0 THEN "-" \o Digits(-n) ELSE Digits(n)

\* fmt's %0wd: zero padding to a minimum width w, the sign first and
\* counted in the width; longer numbers are printed in full.
FmtD0(n, w) ==
  IF n < 0
    THEN "-" \o Zeros(w - 1 - Len(Digits(-n))) \o Digits(-n)
    ELSE Zeros(w - Len(Digits(n))) \o Digits(n)

\* formataTimePadraoLog: Sprintf("%02d/%02d/%04d %02d:%02d:%02d.%d", ...)
\* with the last operand t.Nanosecond()/1e6.
formataTimePadraoLog(t) ==
  FmtD0(t.day, 2) \o "/" \o FmtD0(t.month, 2) \o "/" \o FmtD0(t.year, 4)
    \o " " \o FmtD0(t.hour, 2) \o ":" \o FmtD0(t.minute, 2) \o ":"
    \o FmtD0(t.second, 2) \o "." \o FmtD(t.nanosecond \div 1000000)

\* log.Printf of the standard library logger: the line starts with the
\* date and time (LstdFlags, "2006/01/02 15:04:05 ") and ends with a
\* newline, added when the message does not end with one.
stdLogLine(t, msg) ==
  FmtD0(t.year, 4) \o "/" \o FmtD0(t.month, 2) \o "/" \o FmtD0(t.day, 2)
    \o " " \o FmtD0(t.hour, 2) \o ":" \o FmtD0(t.minute, 2) \o ":"
    \o FmtD0(t.second, 2) \o " " \o msg
    \o (IF Len(msg) > 0 /\ SubSeq(msg, Len(msg), Len(msg)) = "\n"
          THEN "" ELSE "\n")

(***************************************************************************)
(* Message rendering: fmt.Sprint and fmt.Sprintf on string and int         *)
(* operands.  Formats use the verbs %s, %d, %v and %% without flags,       *)
(* width or precision.                                                     *)
(***************************************************************************)
StrArg(s) == [t |-> "string", s |-> s, n |-> 0]
IntArg(n) == [t |-> "int", s |-> "", n |-> n]

\* The default (%v) text of an operand.
ValueText(a) == IF a.t = "string" THEN a.s ELSE FmtD(a.n)

\* fmt.Sprint: the operands' default texts, with a space between two
\* adjacent operands when neither is a string.
RECURSIVE SprintFrom(_, _)
SprintFrom(args, i) ==
  IF i > Len(args) THEN ""
  ELSE (IF i > 1 /\ args[i].t # "string" /\ args[i - 1].t # "string"
          THEN " " ELSE "")
       \o ValueText(args[i]) \o SprintFrom(args, i + 1)

\* Sprint with no space between any two operands.
RECURSIVE SprintNoSpace(_)
SprintNoSpace(args) ==
  IF args = <<>> THEN "" ELSE ValueText(Head(args)) \o SprintNoSpace(Tail(args))

Sprint(args) == SprintFrom(args, 1)

\* One operand printed under a verb: a verb that does not fit the
\* operand's type prints %!verb(type=value).
PrintArg(a, verb) ==
  IF verb = "v" \/ (verb = "s" /\ a.t = "string") \/ (verb = "d" /\ a.t = "int")
    THEN ValueText(a)
    ELSE "%!" \o verb \o "(" \o a.t \o "=" \o ValueText(a) \o ")"

\* The operands left over after the format: type=value, comma separated.
RECURSIVE ExtraFrom(_, _)
ExtraFrom(args, i) ==
  IF i > Len(args) THEN ""
  ELSE args[i].t \o "=" \o ValueText(args[i])
       \o (IF i < Len(args) THEN ", " ELSE "") \o ExtraFrom(args, i + 1)

\* fmt.Sprintf from position i of the format with operand argNum next.
RECURSIVE SprintfFrom(_, _, _, _)
SprintfFrom(format, i, args, argNum) ==
  IF i > Len(format)
    THEN IF argNum <= Len(args)
           THEN "%!(EXTRA " \o ExtraFrom(args, argNum) \o ")"
           ELSE ""
  ELSE IF SubSeq(format, i, i) # "%"
    THEN SubSeq(format, i, i) \o SprintfFrom(format, i + 1, args, argNum)
  ELSE IF i = Len(format)
    THEN "%!(NOVERB)" \o SprintfFrom(format, i + 1, args, argNum)
  ELSE LET verb == SubSeq(format, i + 1, i + 1) IN
    IF verb = "%"
      THEN "%" \o SprintfFrom(format, i + 2, args, argNum)
    ELSE IF argNum > Len(args)
      THEN "%!" \o verb \o "(MISSING)" \o SprintfFrom(format, i + 2, args, argNum)
    ELSE PrintArg(args[argNum], verb)
           \o SprintfFrom(format, i + 2, args, argNum + 1)

Sprintf(format, args) == SprintfFrom(format, 1, args, 1)

\* The message of the file sink and of the remote sink: Sprint for an
\* empty format, Sprintf otherwise.
renderMessage(format, args) ==
  IF format = "" THEN Sprint(args) ELSE Sprintf(format, args)

\* The message of the console sink: fmt.Printf(fmt.Sprint(args...)) for an
\* empty format, so the joined text is itself used as a format with no
\* operands; fmt.Printf(format, args...) otherwise.
consoleMessage(format, args) ==
  IF format = "" THEN Sprintf(Sprint(args), <<>>) ELSE Sprintf(format, args)

(***************************************************************************)
(* Logger facade                                                           *)
(***************************************************************************)
\* The 14 methods of interface Logger.
PlainMethods ==
  {"Trace", "Info", "Notice", "Warn", "Erro", "Alert", "Emergency"}
FormattedMethods ==
  {"Tracef", "Infof", "Noticef", "Warnf", "Errof", "Alertf", "Emergencyf"}
Methods == PlainMethods \cup FormattedMethods

\* The severity each method hands to output.
MethodSeverity(method) ==
  CASE method = "Trace"      -> "Debug"
    [] method = "Tracef"     -> "Debug"
    [] method = "Info"       -> "Info"
    [] method = "Infof"      -> "Debug"
    [] method = "Notice"     -> "Notice"
    [] method = "Noticef"    -> "Notice"
    [] method = "Erro"       -> "Error"
    [] method = "Errof"      -> "Error"
    [] method = "Warn"       -> "Warning"
    [] method = "Warnf"      -> "Warning"
    [] method = "Alert"      -> "Alert"
    [] method = "Alertf"     -> "Alert"
    [] method = "Emergency"  -> "Emergency"
    [] method = "Emergencyf" -> "Emergency"

\* The format each method hands to output: "" from a plain method, the
\* caller's template from a formatted one.
MethodFormat(method, format) ==
  IF method \in PlainMethods THEN "" ELSE format

\* The facade call of input in (a method, a template, the operands) as the
\* id-th call of the run: the arguments output receives.
FacadeCall(in, id) ==
  [id       |-> id,
   method   |-> in.method,
   severity |-> MethodSeverity(in.method),
   format   |-> MethodFormat(in.method, in.format),
   args     |-> in.args]

\* No call in progress.
NoCall ==
  [id |-> <<0, 0>>, method |-> "", severity |-> "", format |-> "",
   args |-> <<>>]

\* The calls the concurrent callers choose from.
CallInputs ==
  {[method |-> "Warn", format |-> "", args |-> <<StrArg("a"), StrArg("b")>>],
   [method |-> "Infof", format |-> "%s-%s",
    args |-> <<StrArg("a"), StrArg("b")>>]}

(***************************************************************************)
(* Time                                                                    *)
(***************************************************************************)
\* The instant the clock shows at millisecond ms of the run.
BaseInstant ==
  [day |-> 5, month |-> 3, year |-> 2024, hour |-> 7, minute |-> 8,
   second |-> 9, nanosecond |-> 8999999]
Instant(ms) ==
  [BaseInstant EXCEPT !.nanosecond = BaseInstant.nanosecond + ms * 1000000]

(***************************************************************************)
(* The file system as ioutil.WriteFile sees it                             *)
(***************************************************************************)
\* os.ModeAppend, the perm argument that flushLogFile passes.
osModeAppend == 1073741824
\* FileMode.Perm: the nine permission bits.
Perm(mode) == mode % 512
\* The owner's write bit (0200) of a mode.
OwnerWrite(mode) == (Perm(mode) \div 128) % 2 = 1
\* Modes of a destination file that exists before the Logger does:
\* 0644 and 0444.
ModeReadWrite == 256 + 128 + 32 + 4
ModeReadOnly == 256 + 32 + 4

\* Whether os.OpenFile(name, O_WRONLY|O_CREATE|O_TRUNC, perm) succeeds: on
\* an existing file the caller needs write permission (or privilege), on
\* a missing one permission to create it in the directory.
CanOpen(exists, mode, dirOk, priv) ==
  IF exists THEN priv \/ OwnerWrite(mode) ELSE dirOk

\* The mode of the file after a successful open: an existing file keeps
\* its mode, a created one gets the permission bits of perm.
ModeAfterOpen(exists, mode, perm) ==
  IF exists THEN mode ELSE Perm(perm)

(***************************************************************************)
(* State                                                                   *)
(***************************************************************************)
VARIABLES
  enableConsole,      \* Log.enableConsole
  enableFile,         \* Log.enableFile
  enableStackDriver,  \* Log.enableStackDriver
  fileName,           \* Log.fileName
  bufferFile,         \* Log.bufferFile: "nil" or "buffer", the pointer
  logStackdriver,     \* Log.logStackdriver: "nil" or "client"
  buffer,             \* the segments held by the bytes.Buffer
  muxConsole,         \* Log.muxConsole: 0 when free, else its holder
  muxFile,            \* Log.muxFile: 0 when free, else its holder
  pc,                 \* each caller's position in the facade and output
  cur,                \* each caller's call in progress
  ncalls,             \* the number of calls each caller has made
  fpc,                \* the flush task's position in flushLogFile
  taken,              \* the buffer as the flush task found it at line 73
  now,                \* the clock, in milliseconds after BaseInstant
  stdout,             \* segments written to standard output
  stderr,             \* segments written to standard error
  remote,             \* entries handed to the remote client
  fileExists,         \* whether the destination file exists
  fileMode,           \* its mode
  fileContent,        \* its content, as segments
  dirWritable,        \* whether a file can be created at the destination
  privileged,         \* whether the process bypasses permission checks
  existedBefore,      \* whether the file existed when the Logger was built
  cycles,             \* history: the WriteFile calls, data and outcome
  instant,            \* an instant handed to formataTimePadraoLog
  timeText            \* what formataTimePadraoLog returned for it, or ""

vars ==
  <<enableConsole, enableFile, enableStackDriver, fileName, bufferFile,
    logStackdriver, buffer, muxConsole, muxFile, pc, cur, ncalls, fpc,
    taken, now, stdout, stderr, remote, fileExists, fileMode, fileContent,
    dirWritable, privileged, existedBefore, cycles, instant, timeText>>

loggerVars ==
  <<enableConsole, enableFile, enableStackDriver, fileName, bufferFile,
    logStackdriver>>
envVars == <<dirWritable, privileged, existedBefore>>
pureVars == <<instant, timeText>>
fsVars == <<fileExists, fileMode, fileContent, cycles>>
consoleVars == <<stdout, stderr>>

Callers == 1..MaxCallers
\* The flush task, as a holder of the file lock.
FlushTask == MaxCallers + 1

\* One write call's text, with the call it belongs to.
Segment(id, kind, text) == [call |-> id, kind |-> kind, text |-> text]

\* The bytes of a sequence of segments.
RECURSIVE Bytes(_)
Bytes(segs) ==
  IF segs = <<>> THEN "" ELSE Head(segs).text \o Bytes(Tail(segs))

\* bytes.Buffer.Len.
BufferLen(segs) == Len(Bytes(segs))

\* What a destination file holds before the Logger is built.
OldContent == <<Segment(<<0, 0>>, "old", "old\n")>>

\* The destination paths given to NewLogFile.
FileNames == {"", "/tmp/x.log"}

(***************************************************************************)
(* Construction                                                            *)
(***************************************************************************)
\* NewLogFile(config): the file sink enabled, a fresh buffer, and the
\* flush task started.
NewLogFile(name) ==
  /\ enableConsole = FALSE
  /\ enableFile = TRUE
  /\ enableStackDriver = FALSE
  /\ fileName = name
  /\ bufferFile = "buffer"
  /\ logStackdriver = "nil"
  /\ buffer = <<>>
  /\ fpc = "ticker"

\* NewLogConsole(config): the console sink enabled, nothing else set, no
\* flush task.
NewLogConsole ==
  /\ enableConsole = TRUE
  /\ enableFile = FALSE
  /\ enableStackDriver = FALSE
  /\ fileName = ""
  /\ bufferFile = "nil"
  /\ logStackdriver = "nil"
  /\ buffer = <<>>
  /\ fpc = "none"

\* The destination before the Logger is built: missing, in a directory
\* that allows creating it or not, or there with old content and mode 0644
\* or 0444; the process privileged or not.
InitEnv ==
  /\ privileged \in BOOLEAN
  /\ \/ /\ fileExists = FALSE
        /\ fileMode = 0
        /\ fileContent = <<>>
        /\ dirWritable \in BOOLEAN
     \/ /\ fileExists = TRUE
        /\ fileMode \in {ModeReadWrite, ModeReadOnly}
        /\ fileContent = OldContent
        /\ dirWritable = TRUE
  /\ existedBefore = fileExists

InitRun ==
  /\ muxConsole = 0
  /\ muxFile = 0
  /\ pc = [c \in Callers |-> "idle"]
  /\ cur = [c \in Callers |-> NoCall]
  /\ ncalls = [c \in Callers |-> 0]
  /\ taken = <<>>
  /\ now = 0
  /\ stdout = <<>>
  /\ stderr = <<>>
  /\ remote = <<>>
  /\ cycles = <<>>
  /\ instant = BaseInstant
  /\ timeText = ""

Init ==
  /\ (NewLogConsole \/ \E name \in FileNames : NewLogFile(name))
  /\ InitEnv
  /\ InitRun

(***************************************************************************)
(* A log call: a facade method, then output, one step per statement that   *)
(* other callers or the flush task can observe.                            *)
(***************************************************************************)
Goto(c, where) == pc' = [pc EXCEPT ![c] = where]

\* The number of log calls made so far.
RECURSIVE SumCalls(_)
SumCalls(c) == IF c = 0 THEN 0 ELSE ncalls[c] + SumCalls(c - 1)
CallsMade == SumCalls(MaxCallers)

\* time.Now(): the clock never runs backwards.
ReadClock(t) == t \in now..MaxClock /\ now' = t

\* line 108: whether output serves the file sink.
\* FileSinkOn without the test of the path.
FileSinkOnAnyPath == enableFile /\ bufferFile # "nil"
FileSinkOn == enableFile /\ fileName # "" /\ bufferFile # "nil"

\* Where output goes next, the sinks being served in the order of the
\* code: the console sink (line 95), then the file sink (line 108), then
\* the return.
AfterRemote ==
  IF enableConsole THEN "console" ELSE IF FileSinkOn THEN "file" ELSE "idle"
\* AfterConsole without the test of line 108.
AfterConsoleNoTest == "file"
AfterConsole == IF FileSinkOn THEN "file" ELSE "idle"

\* RemoteSink without the test of line 84.
RemoteSinkUntested(call) ==
  Append(remote,
    [severity |-> call.severity,
     payload  |-> renderMessage(call.format, call.args)])

\* lines 84-93: the remote sink, served when it is enabled and has a
\* client.
RemoteSink(call) ==
  IF enableStackDriver /\ logStackdriver # "nil"
    THEN Append(remote,
           [severity |-> call.severity,
            payload  |-> renderMessage(call.format, call.args)])
    ELSE remote

\* A facade method is called: it calls output with its severity and
\* format, and output runs up to its first lock (or returns when no sink
\* is left to serve).  The callers are numbered in the order of their
\* first calls.
CallWith(c, inputs) ==
  /\ pc[c] = "idle"
  /\ CallsMade < MaxCalls
  /\ IF c = 1 THEN TRUE ELSE ncalls[c - 1] > 0
  /\ \E in \in inputs :
       LET call == FacadeCall(in, <<c, ncalls[c] + 1>>) IN
         /\ remote' = RemoteSink(call)
         /\ cur' = [cur EXCEPT ![c] = IF AfterRemote = "idle" THEN NoCall
                                                        ELSE call]
  /\ ncalls' = [ncalls EXCEPT ![c] = @ + 1]
  /\ Goto(c, AfterRemote)
  /\ UNCHANGED <<pureVars, loggerVars, envVars, fsVars, consoleVars, buffer,
                 muxConsole, muxFile, fpc, taken, now>>

Call(c) == CallWith(c, CallInputs)

\* ConsoleLock without waiting for the lock to be free.
ConsoleLockNoWait(c) ==
  /\ pc[c] = "console"
  /\ muxConsole' = c
  /\ Goto(c, "cTag")
  /\ UNCHANGED <<pureVars, loggerVars, envVars, fsVars, consoleVars, buffer, muxFile,
                 cur, ncalls, fpc, taken, now, remote>>

\* line 96: the console sink is entered under muxConsole.
ConsoleLock(c) ==
  /\ pc[c] = "console"
  /\ muxConsole = 0
  /\ muxConsole' = c
  /\ Goto(c, "cTag")
  /\ UNCHANGED <<pureVars, loggerVars, envVars, fsVars, consoleVars, buffer, muxFile,
                 cur, ncalls, fpc, taken, now, remote>>

\* line 97: log.Printf(formats[severity]) writes the tag through the
\* standard logger, to standard error.
ConsoleTag(c) ==
  /\ pc[c] = "cTag"
  /\ \E t \in 0..MaxClock :
       /\ ReadClock(t)
       /\ stderr' = Append(stderr,
            Segment(cur[c].id, "tag",
                    stdLogLine(Instant(t), formats(cur[c].severity))))
  /\ Goto(c, "cTime")
  /\ UNCHANGED <<pureVars, loggerVars, envVars, fsVars, stdout, buffer, muxConsole,
                 muxFile, cur, ncalls, fpc, taken, remote>>

\* line 98: the timestamp and ": ".
ConsoleTime(c) ==
  /\ pc[c] = "cTime"
  /\ \E t \in 0..MaxClock :
       /\ ReadClock(t)
       /\ stdout' = Append(stdout,
            Segment(cur[c].id, "time",
                    formataTimePadraoLog(Instant(t)) \o ": "))
  /\ Goto(c, "cMsg")
  /\ UNCHANGED <<pureVars, loggerVars, envVars, fsVars, stderr, buffer, muxConsole,
                 muxFile, cur, ncalls, fpc, taken, remote>>

\* lines 99-103: the message.
ConsoleMsg(c) ==
  /\ pc[c] = "cMsg"
  /\ stdout' = Append(stdout,
       Segment(cur[c].id, "msg", consoleMessage(cur[c].format, cur[c].args)))
  /\ Goto(c, "cNl")
  /\ UNCHANGED <<pureVars, loggerVars, envVars, fsVars, stderr, buffer, muxConsole,
                 muxFile, cur, ncalls, fpc, taken, now, remote>>

\* line 104: the newline.
ConsoleNl(c) ==
  /\ pc[c] = "cNl"
  /\ stdout' = Append(stdout, Segment(cur[c].id, "nl", "\n"))
  /\ Goto(c, "cUnlock")
  /\ UNCHANGED <<pureVars, loggerVars, envVars, fsVars, stderr, buffer, muxConsole,
                 muxFile, cur, ncalls, fpc, taken, now, remote>>

\* line 105: the lock is released; output goes on to the file sink, or
\* returns.
ConsoleUnlock(c) ==
  /\ pc[c] = "cUnlock"
  /\ muxConsole' = 0
  /\ Goto(c, AfterConsole)
  /\ cur' = [cur EXCEPT ![c] = IF AfterConsole = "idle" THEN NoCall ELSE @]
  /\ UNCHANGED <<pureVars, loggerVars, envVars, fsVars, consoleVars, buffer, muxFile,
                 ncalls, fpc, taken, now, remote>>

\* FileLock without waiting for the lock to be free.
FileLockNoWait(c) ==
  /\ pc[c] = "file"
  /\ muxFile' = c
  /\ Goto(c, "fTag")
  /\ UNCHANGED <<pureVars, loggerVars, envVars, fsVars, consoleVars, buffer,
                 muxConsole, cur, ncalls, fpc, taken, now, remote>>

\* line 109: the file sink is entered under muxFile.
FileLock(c) ==
  /\ pc[c] = "file"
  /\ muxFile = 0
  /\ muxFile' = c
  /\ Goto(c, "fTag")
  /\ UNCHANGED <<pureVars, loggerVars, envVars, fsVars, consoleVars, buffer,
                 muxConsole, cur, ncalls, fpc, taken, now, remote>>

\* line 110: the tag.
FileTag(c) ==
  /\ pc[c] = "fTag"
  /\ buffer' = Append(buffer,
       Segment(cur[c].id, "tag", formats(cur[c].severity)))
  /\ Goto(c, "fTime")
  /\ UNCHANGED <<pureVars, loggerVars, envVars, fsVars, consoleVars, muxConsole,
                 muxFile, cur, ncalls, fpc, taken, now, remote>>

\* line 111: the timestamp and ": ".
FileTime(c) ==
  /\ pc[c] = "fTime"
  /\ \E t \in 0..MaxClock :
       /\ ReadClock(t)
       /\ buffer' = Append(buffer,
            Segment(cur[c].id, "time",
                    formataTimePadraoLog(Instant(t)) \o ": "))
  /\ Goto(c, "fMsg")
  /\ UNCHANGED <<pureVars, loggerVars, envVars, fsVars, consoleVars, muxConsole,
                 muxFile, cur, ncalls, fpc, taken, remote>>

\* lines 112-116: the message.
FileMsg(c) ==
  /\ pc[c] = "fMsg"
  /\ buffer' = Append(buffer,
       Segment(cur[c].id, "msg", renderMessage(cur[c].format, cur[c].args)))
  /\ Goto(c, "fNl")
  /\ UNCHANGED <<pureVars, loggerVars, envVars, fsVars, consoleVars, muxConsole,
                 muxFile, cur, ncalls, fpc, taken, now, remote>>

\* FileNl writing the buffer through to the destination file.
FileNlWritesThrough(c) ==
  /\ pc[c] = "fNl"
  /\ buffer' = Append(buffer, Segment(cur[c].id, "nl", "\n"))
  /\ fileExists' = TRUE
  /\ fileContent' = buffer'
  /\ Goto(c, "fUnlock")
  /\ UNCHANGED <<pureVars, loggerVars, envVars, fileMode, cycles,
                 consoleVars, muxConsole, muxFile, cur, ncalls, fpc, taken,
                 now, remote>>

\* line 117: the newline.
FileNl(c) ==
  /\ pc[c] = "fNl"
  /\ buffer' = Append(buffer, Segment(cur[c].id, "nl", "\n"))
  /\ Goto(c, "fUnlock")
  /\ UNCHANGED <<pureVars, loggerVars, envVars, fsVars, consoleVars, muxConsole,
                 muxFile, cur, ncalls, fpc, taken, now, remote>>

\* lines 118-120: the lock is released and output returns.
FileUnlock(c) ==
  /\ pc[c] = "fUnlock"
  /\ muxFile' = 0
  /\ Goto(c, "idle")
  /\ cur' = [cur EXCEPT ![c] = NoCall]
  /\ UNCHANGED <<pureVars, loggerVars, envVars, fsVars, consoleVars, buffer,
                 muxConsole, ncalls, fpc, taken, now, remote>>

(***************************************************************************)
(* The flush task: flushLogFile, one iteration of its loop per tick.       *)
(***************************************************************************)
\* line 70: the ticker fires.
Tick ==
  /\ fpc = "ticker"
  /\ fpc' = "lock"
  /\ UNCHANGED <<pureVars, loggerVars, envVars, fsVars, consoleVars, buffer,
                 muxConsole, muxFile, pc, cur, ncalls, taken, now, remote>>

\* line 71.
FlushLock ==
  /\ fpc = "lock"
  /\ muxFile = 0
  /\ muxFile' = FlushTask
  /\ fpc' = "check"
  /\ UNCHANGED <<pureVars, loggerVars, envVars, fsVars, consoleVars, buffer,
                 muxConsole, pc, cur, ncalls, taken, now, remote>>

\* FlushWrites with the test of the path inverted.
FlushWritesNoPath == BufferLen(buffer) > 0 /\ fileName = ""

\* line 73: whether the tick writes the buffer to the file.
FlushWrites == BufferLen(buffer) > 0 /\ fileName # ""

\* lines 72-73: with no buffer the iteration ends, the lock still held;
\* otherwise the tick goes on to the write or straight to the reset.
FlushCheck ==
  /\ fpc = "check"
  /\ fpc' = IF bufferFile = "nil" THEN "ticker"
            ELSE IF FlushWrites THEN "write" ELSE "reset"
  /\ taken' = buffer
  /\ UNCHANGED <<pureVars, loggerVars, envVars, fsVars, consoleVars, buffer,
                 muxConsole, muxFile, pc, cur, ncalls, now, remote>>

\* WriteFileContent opening with O_APPEND in place of O_TRUNC.
WriteFileAppends(old, data) == old \o data

\* What a successful ioutil.WriteFile leaves in the file: it opens with
\* O_TRUNC, so the data replaces the old content.
WriteFileContent(old, data) == data

\* line 74: ioutil.WriteFile(log.fileName, log.bufferFile.Bytes(),
\* os.ModeAppend); its error is dropped.
FlushWrite ==
  /\ fpc = "write"
  /\ LET ok == CanOpen(fileExists, fileMode, dirWritable, privileged) IN
       /\ fileExists' = (fileExists \/ ok)
       /\ fileMode' =
            IF ok THEN ModeAfterOpen(fileExists, fileMode, osModeAppend)
                  ELSE fileMode
       /\ fileContent' =
            IF ok THEN WriteFileContent(fileContent, buffer) ELSE fileContent
       /\ cycles' = Append(cycles, [data |-> buffer, ok |-> ok])
  /\ fpc' = "reset"
  /\ UNCHANGED <<pureVars, loggerVars, envVars, consoleVars, buffer, muxConsole,
                 muxFile, pc, cur, ncalls, taken, now, remote>>

\* FlushReset without the Reset: the buffer keeps its lines.
FlushResetKeeps ==
  /\ fpc = "reset"
  /\ fpc' = "unlock"
  /\ UNCHANGED <<pureVars, loggerVars, envVars, fsVars, consoleVars, buffer,
                 muxConsole, muxFile, pc, cur, ncalls, taken, now, remote>>

\* FlushReset only after a write that succeeded, or no write at all.
FlushResetOnSuccess ==
  /\ fpc = "reset"
  /\ buffer' = IF taken # <<>> /\ fileName # "" /\ ~cycles[Len(cycles)].ok
                 THEN buffer ELSE <<>>
  /\ fpc' = "unlock"
  /\ UNCHANGED <<pureVars, loggerVars, envVars, fsVars, consoleVars,
                 muxConsole, muxFile, pc, cur, ncalls, taken, now, remote>>

\* line 76: log.bufferFile.Reset().
FlushReset ==
  /\ fpc = "reset"
  /\ buffer' = <<>>
  /\ fpc' = "unlock"
  /\ UNCHANGED <<pureVars, loggerVars, envVars, fsVars, consoleVars, muxConsole,
                 muxFile, pc, cur, ncalls, taken, now, remote>>

\* FlushUnlock without the Unlock.
FlushUnlockKeepsLock ==
  /\ fpc = "unlock"
  /\ fpc' = "ticker"
  /\ taken' = <<>>
  /\ UNCHANGED <<pureVars, loggerVars, envVars, fsVars, consoleVars, buffer,
                 muxConsole, muxFile, pc, cur, ncalls, now, remote>>

\* line 77.
FlushUnlock ==
  /\ fpc = "unlock"
  /\ muxFile' = 0
  /\ fpc' = "ticker"
  /\ taken' = <<>>
  /\ UNCHANGED <<pureVars, loggerVars, envVars, fsVars, consoleVars, buffer,
                 muxConsole, pc, cur, ncalls, now, remote>>

(***************************************************************************)
(* Specifications                                                          *)
(***************************************************************************)
Output(c) ==
  \/ ConsoleLock(c)
  \/ ConsoleTag(c)
  \/ ConsoleTime(c)
  \/ ConsoleMsg(c)
  \/ ConsoleNl(c)
  \/ ConsoleUnlock(c)
  \/ FileLock(c)
  \/ FileTag(c)
  \/ FileTime(c)
  \/ FileMsg(c)
  \/ FileNl(c)
  \/ FileUnlock(c)

Flush ==
  \/ Tick
  \/ FlushLock
  \/ FlushCheck
  \/ FlushWrite
  \/ FlushReset
  \/ FlushUnlock

Next ==
  \/ \E c \in Callers : Call(c) \/ Output(c)
  \/ Flush

\* Concurrent callers on a Logger from either constructor.
Spec == Init /\ [][Next]_vars

(***************************************************************************)
(* A file-backed Logger under the scheduling the Go runtime gives: every   *)
(* goroutine that can run does run, the ticker keeps firing, and a         *)
(* goroutine waiting for a sync.Mutex gets it (the mutex hands the lock    *)
(* over to a waiter that has waited long: starvation mode).                *)
(***************************************************************************)
InitFile ==
  /\ NewLogFile("/tmp/x.log")
  /\ InitEnv
  /\ dirWritable
  /\ ~privileged
  /\ ~fileExists
  /\ InitRun

\* The call the callers make.
FairInputs ==
  {[method |-> "Warnf", format |-> "disk at %d%%", args |-> <<IntArg(91)>>]}

FileSink(c) ==
  \/ FileLock(c)
  \/ FileTag(c)
  \/ FileTime(c)
  \/ FileMsg(c)
  \/ FileNl(c)
  \/ FileUnlock(c)

NextFile ==
  \/ \E c \in Callers : CallWith(c, FairInputs) \/ FileSink(c)
  \/ Flush

Fairness ==
  /\ \A c \in Callers :
       /\ SF_vars(FileLock(c))
       /\ WF_vars(FileTag(c) \/ FileTime(c) \/ FileMsg(c) \/ FileNl(c)
                    \/ FileUnlock(c))
  /\ SF_vars(FlushLock)
  /\ WF_vars(Tick \/ FlushCheck \/ FlushWrite \/ FlushReset \/ FlushUnlock)

SpecFair == InitFile /\ [][NextFile]_vars /\ Fairness

(***************************************************************************)
(* The facade, one call in a run: every method, with operands of every     *)
(* kind, on a Logger from either constructor.                              *)
(***************************************************************************)
\* The templates and operands of the calls.
FacadeFormats == {"", "%s-%s", "disk at %d%%"}
FacadeArgs ==
  {<<StrArg("a"), StrArg("b")>>, <<IntArg(91)>>, <<IntArg(1), IntArg(2)>>,
   <<StrArg("100%")>>, <<StrArg("n="), IntArg(1), IntArg(2), StrArg("x")>>}
FacadeInputs ==
  {[method |-> m, format |-> f, args |-> a] :
     m \in Methods, f \in FacadeFormats, a \in FacadeArgs}

\* The one call of the run.
FacadeStep(c) ==
  /\ CallsMade = 0
  /\ CallWith(c, FacadeInputs)

NextCall ==
  \/ \E c \in {1} : FacadeStep(c) \/ Output(c)
  \/ Flush

InitCall ==
  /\ (NewLogConsole \/ NewLogFile("/tmp/x.log"))
  /\ InitEnv
  /\ dirWritable
  /\ privileged
  /\ ~fileExists
  /\ InitRun

SpecCall == InitCall /\ [][NextCall]_vars

(***************************************************************************)
(* formataTimePadraoLog as a function of the instant.                      *)
(***************************************************************************)
Instants ==
  [day : {1, 9, 10, 31}, month : {1, 12}, year : {2024}, hour : {0, 23},
   minute : {8}, second : {9},
   nanosecond : {0, 999999, 1000000, 9999999, 10000000, 99999999,
                 100000000, 123456789, 999999999}]

InitTime ==
  /\ NewLogConsole
  /\ InitEnv
  /\ dirWritable
  /\ privileged
  /\ ~fileExists
  /\ muxConsole = 0
  /\ muxFile = 0
  /\ pc = [c \in Callers |-> "idle"]
  /\ cur = [c \in Callers |-> NoCall]
  /\ ncalls = [c \in Callers |-> 0]
  /\ taken = <<>>
  /\ now = 0
  /\ stdout = <<>>
  /\ stderr = <<>>
  /\ remote = <<>>
  /\ cycles = <<>>
  /\ instant \in Instants
  /\ timeText = ""

FormatTime ==
  /\ timeText = ""
  /\ timeText' = formataTimePadraoLog(instant)
  /\ UNCHANGED <<instant, loggerVars, envVars, fsVars, consoleVars, buffer,
                 muxConsole, muxFile, pc, cur, ncalls, fpc, taken, now,
                 remote>>

SpecTime == InitTime /\ [][FormatTime]_vars

(***************************************************************************)
(* Properties                                                              *)
(***************************************************************************)
\* The kinds of the four segments of a line, in order.
LineKinds == <<"tag", "time", "msg", "nl">>
\* The calls that wrote the segments.
Ids(segs) == {segs[i].call : i \in DOMAIN segs}
\* Segment i is the segment of its place in a line, written by the call
\* that wrote the first segment of that line.
InLine(segs, i) ==
  /\ segs[i].kind = LineKinds[((i - 1) % 4) + 1]
  /\ segs[i].call = segs[i - ((i - 1) % 4)].call
\* The segments are whole lines, up to a last line still being written.
LinesAndPrefix(segs) ==
  /\ \A i \in DOMAIN segs : InLine(segs, i)
  /\ \A i, j \in DOMAIN segs :
       segs[i].call = segs[j].call => (i - 1) \div 4 = (j - 1) \div 4
\* The segments are whole lines, one per call.
WholeLines(segs) == LinesAndPrefix(segs) /\ Len(segs) % 4 = 0
\* The number of lines handed to the file write in all flush cycles.
RECURSIVE LinesHanded(_)
LinesHanded(cs) ==
  IF cs = <<>> THEN 0 ELSE Len(Head(cs).data) \div 4 + LinesHanded(Tail(cs))

\* C1: the file buffer is always a concatenation of whole lines, each the
\* tag, timestamp, message and newline of one call, except for the line
\* that the caller holding the file lock is writing; what a flush cycle
\* hands to the file write is whole lines; no call's line is handed to the
\* write of two cycles (a line handed to a write is in the buffer only
\* until the reset of that same tick), and the lines handed over in all
\* cycles are no more than the calls made.
C1_WholeLinesOnce ==
  /\ LinesAndPrefix(buffer)
  /\ Len(buffer) % 4 # 0 =>
       /\ muxFile \in Callers
       /\ buffer[Len(buffer)].call = cur[muxFile].id
  /\ \A i \in DOMAIN cycles :
       /\ WholeLines(cycles[i].data)
       /\ \/ Ids(cycles[i].data) \cap Ids(buffer) = {}
          \/ fpc = "reset" /\ i = Len(cycles) /\ cycles[i].data = buffer
       /\ \A j \in DOMAIN cycles :
            i # j => Ids(cycles[i].data) \cap Ids(cycles[j].data) = {}
  /\ LinesHanded(cycles) <= CallsMade
  /\ CallsMade <= MaxCalls

\* Two callers' lines were handed whole to one file write.
C1_Witness ==
  \E i \in DOMAIN cycles :
    /\ Len(cycles[i].data) = 8
    /\ cycles[i].data[1].call[1] # cycles[i].data[5].call[1]

\* C2: at the end of a flush tick that found the buffer non-empty and
\* whose write to the destination succeeded, the buffer is empty and the
\* file holds exactly the bytes the tick found in the buffer, whatever it
\* held before.
C2_FlushReplaces ==
  (/\ fpc = "unlock"
   /\ taken # <<>>
   /\ fileName # ""
   /\ cycles[Len(cycles)].ok)
  => /\ buffer = <<>>
     /\ fileExists
     /\ Bytes(fileContent) = Bytes(taken)

\* A second successful flush has replaced what the first one wrote.
C2_Witness ==
  /\ fpc = "unlock"
  /\ Len(cycles) = 2
  /\ cycles[1].ok
  /\ cycles[2].ok
  /\ Bytes(fileContent) = Bytes(taken)

\* The severity and the tag that a method's name stands for.
NamedSeverity(method) ==
  CASE method \in {"Trace", "Tracef"}         -> "Debug"
    [] method \in {"Info", "Infof"}           -> "Info"
    [] method \in {"Notice", "Noticef"}       -> "Notice"
    [] method \in {"Warn", "Warnf"}           -> "Warning"
    [] method \in {"Erro", "Errof"}           -> "Error"
    [] method \in {"Alert", "Alertf"}         -> "Alert"
    [] method \in {"Emergency", "Emergencyf"} -> "Emergency"
NamedTag(method) ==
  CASE method \in {"Trace", "Tracef"}         -> "[TRACE] "
    [] method \in {"Info", "Infof"}           -> "[INFO] "
    [] method \in {"Notice", "Noticef"}       -> "[NOTICE] "
    [] method \in {"Warn", "Warnf"}           -> "[WARN] "
    [] method \in {"Erro", "Errof"}           -> "[ERROR] "
    [] method \in {"Alert", "Alertf"}         -> "[ALERT] "
    [] method \in {"Emergency", "Emergencyf"} -> "[EMERGENCY] "

\* C3: every facade method dispatches with the severity of its own name,
\* and the tag its call appends to the file buffer is the tag of that
\* severity, so a plain method and its formatted counterpart agree.
C3_SeverityOfName ==
  \A c \in Callers :
    cur[c].method # "" =>
      /\ cur[c].severity = NamedSeverity(cur[c].method)
      /\ \A i \in DOMAIN buffer :
           (buffer[i].call = cur[c].id /\ buffer[i].kind = "tag")
             => buffer[i].text = NamedTag(cur[c].method)

\* The positions of output inside the file sink, the lock held.
InFileSink(c) == pc[c] \in {"fTag", "fTime", "fMsg", "fNl", "fUnlock"}
\* The positions of the flush task with the lock held.
FlushHolds == fpc \in {"check", "write", "reset", "unlock"}

\* C5: appending and draining are mutually exclusive: whoever is at a
\* statement that reads or changes the buffer holds the file lock, so at
\* most one of the callers and the flush task is there; from the tick's
\* decision to write until its reset the buffer is what the tick found,
\* and when a write was attempted the bytes the reset removes are the
\* bytes handed to that write.
C5_AppendDrainExclusive ==
  /\ \A c \in Callers : InFileSink(c) => muxFile = c
  /\ FlushHolds => muxFile = FlushTask
  /\ fpc \in {"write", "reset"} => buffer = taken
  /\ (fpc = "reset" /\ taken # <<>> /\ fileName # "") =>
       /\ cycles # <<>>
       /\ cycles[Len(cycles)].data = buffer

\* A caller waits for the lock while the flush task is between its write
\* and its reset.
C5_Witness ==
  /\ fpc = "reset"
  /\ buffer # <<>>
  /\ \E c \in Callers : pc[c] = "file"

\* C6 as stated: no log call is waiting to append while the flush task is
\* writing the buffer to the destination file.
C6_NoWaitDuringWrite ==
  ~(fpc = "write" /\ \E c \in Callers : pc[c] = "file")

\* C6 as amended: no log call performs file I/O: the destination file is
\* created and written only by the flush task's write, a step in which no
\* caller moves, and a caller that waits for the file sink while that
\* write is under way waits for the lock the flush task holds.
C6_OnlyFlushWritesFile ==
  /\ [][(fileContent' # fileContent \/ fileExists' # fileExists
           \/ fileMode' # fileMode \/ cycles' # cycles)
          => (fpc = "write" /\ fpc' = "reset" /\ pc' = pc
                /\ muxFile = FlushTask)]_vars
  /\ [](\A c \in Callers :
          (pc[c] = "file" /\ fpc = "write") => muxFile = FlushTask)

\* A caller waits for the file lock while the flush task is writing.
C6_Witness ==
  /\ fpc = "write"
  /\ muxFile = FlushTask
  /\ \E c \in Callers : pc[c] = "file" /\ cur[c].method # ""

\* C7: a Logger from NewLogConsole never appends to a file buffer and
\* never writes a file: it has no flush task, no call reaches the file
\* sink, no file write is made, and the destination is as it was.
C7_ConsoleNeverFile ==
  enableConsole =>
    /\ fpc = "none"
    /\ buffer = <<>>
    /\ cycles = <<>>
    /\ \A c \in Callers : pc[c] # "file" /\ ~InFileSink(c)
    /\ fileExists = existedBefore
    /\ fileContent = IF existedBefore THEN OldContent ELSE <<>>

\* A console-backed Logger has served all the calls of the run.
C7_Witness ==
  /\ enableConsole
  /\ existedBefore
  /\ CallsMade = MaxCalls
  /\ \A c \in Callers : pc[c] = "idle"
  /\ Len(stdout) = 3 * MaxCalls

\* C4: the file lock causes no deadlock: under fair scheduling every
\* caller that reaches the file sink completes it and returns, every
\* flush tick that asks for the lock completes with the lock released,
\* and every holder of the lock releases it.
C4_LockAlwaysReleased ==
  /\ \A c \in Callers : (pc[c] = "file") ~> (pc[c] = "idle")
  /\ (fpc = "lock") ~> (fpc = "ticker" /\ muxFile # FlushTask)
  /\ \A h \in 1..FlushTask : (muxFile = h) ~> (muxFile = 0)

\* A caller and the flush task both wait for the lock that another caller
\* holds.
C4_Witness ==
  /\ fpc = "lock"
  /\ muxFile \in Callers
  /\ \E c \in Callers : pc[c] = "file"

\* C8: the rendered timestamp is DD/MM/YYYY hh:mm:ss.mmm: 23 characters
\* for a four-digit year, the separators in place, and a millisecond
\* field of three digits, the nanoseconds divided by 1,000,000.
C8_FixedShape ==
  timeText # "" =>
    /\ Len(timeText) = 23
    /\ SubSeq(timeText, 1, 2) = FmtD0(instant.day, 2)
    /\ SubSeq(timeText, 3, 3) = "/"
    /\ SubSeq(timeText, 4, 5) = FmtD0(instant.month, 2)
    /\ SubSeq(timeText, 6, 6) = "/"
    /\ SubSeq(timeText, 7, 10) = FmtD0(instant.year, 4)
    /\ SubSeq(timeText, 11, 11) = " "
    /\ SubSeq(timeText, 12, 13) = FmtD0(instant.hour, 2)
    /\ SubSeq(timeText, 14, 14) = ":"
    /\ SubSeq(timeText, 15, 16) = FmtD0(instant.minute, 2)
    /\ SubSeq(timeText, 17, 17) = ":"
    /\ SubSeq(timeText, 18, 19) = FmtD0(instant.second, 2)
    /\ SubSeq(timeText, 20, 20) = "."
    /\ SubSeq(timeText, 21, 23) = FmtD0(instant.nanosecond \div 1000000, 3)

\* C9: on a destination that did not exist when the Logger was built, in
\* a directory where it can be created, every flush cycle that writes
\* replaces the file's content: after any such cycle the file holds the
\* lines of the most recent one.
C9_EveryCycleReplaces ==
  (~existedBefore /\ dirWritable /\ cycles # <<>>) =>
    /\ fileExists
    /\ Bytes(fileContent) = Bytes(cycles[Len(cycles)].data)

\* C10: a failed file write is swallowed: at the end of every tick the
\* buffer is empty, also after a failed write; the lines of a failed write
\* are in no other cycle's write, not in the buffer once that tick has
\* reset it, and not in the file; the flush task is never stuck (it can
\* take a step, or waits for the lock a caller holds); and no caller is
\* stuck other than waiting for a lock that is held.
C10_FailedWriteSwallowed ==
  /\ fpc = "unlock" => buffer = <<>>
  /\ \A i \in DOMAIN cycles :
       ~cycles[i].ok =>
         /\ \A j \in DOMAIN cycles :
              i # j => Ids(cycles[i].data) \cap Ids(cycles[j].data) = {}
         /\ (fpc = "reset" /\ i = Len(cycles))
              \/ Ids(cycles[i].data) \cap Ids(buffer) = {}
         /\ Ids(cycles[i].data) \cap Ids(fileContent) = {}
  /\ fpc # "none" => (ENABLED Flush \/ (fpc = "lock" /\ muxFile \in Callers))
  /\ \A c \in Callers :
       \/ pc[c] = "idle"
       \/ ENABLED Output(c)
       \/ pc[c] = "file" /\ muxFile # 0
       \/ pc[c] = "console" /\ muxConsole # 0

\* A write failed, its tick ended, and a later tick has handed other
\* lines to its own write.
C10_Witness ==
  /\ Len(cycles) = 2
  /\ ~cycles[1].ok
  /\ fpc = "ticker"
  /\ buffer = <<>>

\* The calls of a run.
CallIds == Callers \X (1..MaxCalls)
\* The lines handed to the file write of some flush cycle.
HandedIds == UNION {Ids(cycles[i].data) : i \in DOMAIN cycles}

\* C11: with the flush task scheduled fairly, the buffer is empty again
\* and again, every line in the buffer is in time handed to a file write
\* and gone from the buffer, and at the end of a tick whose write
\* succeeded the file holds the lines the tick found in the buffer.
C11_EveryLineFlushed ==
  /\ []<>(buffer = <<>>)
  /\ \A id \in CallIds :
       (id \in Ids(buffer)) ~> (id \notin Ids(buffer) /\ id \in HandedIds)
  /\ []((fpc = "unlock" /\ taken # <<>>)
          => /\ cycles # <<>>
             /\ cycles[Len(cycles)].data = taken
             /\ cycles[Len(cycles)].ok => (fileExists /\ fileContent = taken))

\* A tick has ended whose write put the line it found into the file.
C11_Witness ==
  /\ fpc = "unlock"
  /\ taken # <<>>
  /\ cycles[Len(cycles)].ok
  /\ Ids(taken) \subseteq Ids(fileContent)
  /\ buffer = <<>>

\* The segments of segs that the call id wrote, in order.
SegmentsOf(segs, id) == SelectSeq(segs, LAMBDA sg : sg.call = id)
\* The texts of segs joined.
RECURSIVE Joined(_)
Joined(segs) ==
  IF segs = <<>> THEN "" ELSE Head(segs).text \o Joined(Tail(segs))

\* C12: when a call has written the newline of its console line, what it
\* wrote to standard output is the tag, the timestamp with ": ", the
\* message and the newline, in that order: one line of the form
\* tag + timestamp + ": " + message.
C12_ConsoleLineOnStdout ==
  \A c \in Callers :
    pc[c] = "cUnlock" =>
      LET mine == SegmentsOf(stdout, cur[c].id) IN
        /\ [i \in DOMAIN mine |-> mine[i].kind] = LineKinds
        /\ mine[1].text = formats(cur[c].severity)
        /\ \E t \in 0..MaxClock :
             Joined(mine) = formats(cur[c].severity)
                              \o formataTimePadraoLog(Instant(t)) \o ": "
                              \o mine[3].text \o "\n"

\* The caller c is between the console lock and its release.
InConsoleSink(c) == pc[c] \in {"cTag", "cTime", "cMsg", "cNl", "cUnlock"}
\* The segments each call wrote to the stream segs lie next to each other.
Contiguous(segs) ==
  \A i, j \in DOMAIN segs :
    (i < j /\ segs[i].call = segs[j].call) =>
      \A k \in i..j : segs[k].call = segs[i].call

\* C13: a caller writes its console segments holding the console lock,
\* from before the first to after the newline, and the segments of one
\* call are never interleaved with those of another call.
C13_ConsoleLineAtomic ==
  /\ \A c \in Callers : InConsoleSink(c) => muxConsole = c
  /\ Contiguous(stdout)
  /\ Contiguous(stderr)
  /\ \A i \in DOMAIN stdout :
       stdout[i].kind # "time" =>
         /\ i > 1
         /\ stdout[i - 1].call = stdout[i].call
         /\ stdout[i - 1].kind = (IF stdout[i].kind = "msg" THEN "time" ELSE "msg")
  /\ \A i \in DOMAIN stdout :
       (stdout[i].kind # "nl" /\ i < Len(stdout)) =>
         stdout[i + 1].call = stdout[i].call

\* One caller is in the middle of its console line, the timestamp
\* written, while another waits for the console lock.
C13_Witness ==
  \E c, d \in Callers :
    /\ pc[c] = "cMsg"
    /\ pc[d] = "console"
    /\ stdout # <<>>
    /\ stdout[Len(stdout)].call = cur[c].id

\* The default texts of the operands joined with nothing in between.
RECURSIVE NoSeparator(_)
NoSeparator(args) ==
  IF args = <<>> THEN ""
  ELSE NoSeparator(SubSeq(args, 1, Len(args) - 1)) \o ValueText(args[Len(args)])

\* The default texts of the operands joined, a single space set between
\* two neighbours of which neither is a string.
RECURSIVE SpacedNonStrings(_)
SpacedNonStrings(args) ==
  IF args = <<>> THEN ""
  ELSE LET n == Len(args) IN
    SpacedNonStrings(SubSeq(args, 1, n - 1))
      \o (IF n > 1 /\ "string" \notin {args[n - 1].t, args[n].t} THEN " " ELSE "")
      \o ValueText(args[n])

\* The message segment that the caller c has just appended to the buffer.
FileMessage(c) == buffer[Len(buffer)].text

\* C14 as the specification states it: the message of a plain method is
\* its arguments' default texts joined with no separator, whatever their
\* types.
C14_PlainNoSeparator ==
  \A c \in Callers :
    (pc[c] = "fNl" /\ cur[c].method \in PlainMethods) =>
      FileMessage(c) = NoSeparator(cur[c].args)

\* C14: the message of a plain method, and of a formatted method called
\* with the empty format, is its arguments' default texts joined, with
\* one space between two neighbouring arguments of which neither is a
\* string and nothing between the others (a string next to a number is
\* joined to it with no separator); the message of a formatted method
\* called with a format that is not empty is the format with each verb
\* replaced by the argument it names, or by the marker that fmt prints
\* for a verb whose argument is of another type or missing.
C14_PlainAsSprint ==
  \A c \in Callers :
    pc[c] = "fNl" =>
      /\ cur[c].method \in PlainMethods =>
           /\ cur[c].format = ""
           /\ FileMessage(c) = SpacedNonStrings(cur[c].args)
      /\ (cur[c].method \in FormattedMethods /\ cur[c].format = "") =>
           FileMessage(c) = SpacedNonStrings(cur[c].args)
      /\ (/\ cur[c].format = ""
          /\ cur[c].args = <<StrArg("n="), IntArg(1), IntArg(2), StrArg("x")>>) =>
           FileMessage(c) = "n=1 2x"
      /\ (cur[c].format = "" /\ cur[c].args = <<StrArg("a"), StrArg("b")>>) =>
           FileMessage(c) = "ab"
      /\ (/\ cur[c].method \in FormattedMethods
          /\ cur[c].format = "%s-%s"
          /\ cur[c].args = <<StrArg("a"), StrArg("b")>>) =>
           FileMessage(c) = "a-b"
      /\ (/\ cur[c].method \in FormattedMethods
          /\ cur[c].format = "disk at %d%%"
          /\ cur[c].args = <<IntArg(91)>>) =>
           FileMessage(c) = "disk at 91%"
      /\ (/\ cur[c].method \in FormattedMethods
          /\ cur[c].format = "%s-%s"
          /\ cur[c].args = <<IntArg(91)>>) =>
           FileMessage(c) = "%!s(int=91)-%!s(MISSING)"

\* A formatted method called with the empty format, a string, the
\* numbers 1 and 2 and a string has appended "n=1 2x": the arguments
\* joined as a plain method joins them, a space between the numbers only.
C14_Witness ==
  \E c \in Callers :
    /\ pc[c] = "fNl"
    /\ cur[c].method \in FormattedMethods
    /\ cur[c].format = ""
    /\ cur[c].args = <<StrArg("n="), IntArg(1), IntArg(2), StrArg("x")>>
    /\ FileMessage(c) = "n=1 2x"

\* The calls that have returned.
ReturnedIds ==
  {id \in CallIds : id[2] <= ncalls[id[1]]
                      /\ (pc[id[1]] = "idle" \/ id[2] < ncalls[id[1]])}
\* The flush cycles whose buffer has been emptied: all but the one that
\* has written the buffer and is about to empty it.
DrainedCycles ==
  IF fpc = "reset" /\ cycles # <<>> /\ cycles[Len(cycles)].data = buffer
    THEN SubSeq(cycles, 1, Len(cycles) - 1)
    ELSE cycles
\* The buffers of the cycles cs, one after the other.
RECURSIVE DataOf(_)
DataOf(cs) == IF cs = <<>> THEN <<>> ELSE Head(cs).data \o DataOf(Tail(cs))
\* Every segment appended to the buffer so far, in the order of appending.
EverAppended == DataOf(DrainedCycles) \o buffer
\* The number of lines that the call id has completed in the buffer.
LinesOf(id) ==
  Cardinality({i \in DOMAIN EverAppended :
                 EverAppended[i].call = id /\ EverAppended[i].kind = "nl"})

\* C15 as the specification states it: every call that has returned from
\* a Logger whose file sink is enabled and whose buffer is present has
\* appended exactly one line, whatever the destination path.
C15_AppendsWheneverEnabled ==
  (enableFile /\ bufferFile # "nil") =>
    \A id \in ReturnedIds : LinesOf(id) = 1

\* C15: every call that has returned from a Logger whose file sink is
\* enabled, whose destination path is not empty and whose buffer is
\* present has appended exactly one line, of tag, timestamp, message and
\* newline, under the file lock; on a file-backed Logger with the empty
\* path no call appends anything.
C15_AppendsIffPathSet ==
  /\ \A id \in ReturnedIds :
       LinesOf(id) = (IF enableFile /\ fileName # "" /\ bufferFile # "nil"
                        THEN 1 ELSE 0)
  /\ \A id \in ReturnedIds :
       LET mine == SegmentsOf(EverAppended, id) IN
         mine # <<>> => [i \in DOMAIN mine |-> mine[i].kind] = LineKinds
  /\ (enableFile /\ fileName = "") => EverAppended = <<>>
  /\ \A c \in Callers : InFileSink(c) => muxFile = c

\* Every call of the run has returned from a file-backed Logger with
\* the empty path, and nothing was appended.
C15_Witness ==
  /\ enableFile /\ bufferFile # "nil" /\ fileName = ""
  /\ Cardinality(ReturnedIds) = MaxCalls
  /\ buffer = <<>>
  /\ fpc # "none"

\* No write of the run has succeeded: the destination is unwritable.
Unwritable == cycles # <<>> /\ \A i \in DOMAIN cycles : ~cycles[i].ok

\* C16 as the specification states it: while the destination is
\* unwritable the lines appended before a failed tick are still in the
\* buffer after that tick.
C16_BufferKeepsFailedLines ==
  (Unwritable /\ fpc \in {"unlock", "ticker"}) =>
    \A i \in DOMAIN cycles : Ids(cycles[i].data) \subseteq Ids(buffer)

\* C16: while the destination is unwritable the buffer does not grow
\* from tick to tick: a tick empties the buffer though its write failed,
\* so the buffer holds only lines appended since the last tick emptied
\* it, and none of the lines handed to a failed write.
C16_BufferHoldsSinceLastTick ==
  Unwritable =>
    /\ Len(buffer) <= 4 * (CallsMade - LinesHanded(DrainedCycles))
    /\ Ids(buffer) \cap Ids(DataOf(DrainedCycles)) = {}
    /\ (fpc = "ticker" /\ \A c \in Callers : pc[c] = "idle")
         => Len(buffer) = 4 * (CallsMade - LinesHanded(cycles))

\* Two ticks have failed to write, each has emptied the buffer, and the
\* buffer holds nothing of what they found.
C16_Witness ==
  /\ Unwritable
  /\ Len(cycles) = 2
  /\ fpc = "ticker"
  /\ \A c \in Callers : pc[c] = "idle"
  /\ buffer = <<>>

\* C18: the message that the console sink prints for a call is the
\* rendered message that the file sink appends for the same format and
\* arguments; the text of a plain method's arguments is printed
\* unchanged.
C18_ConsoleMessageAsFile ==
  \A c \in Callers :
    pc[c] = "cNl" =>
      /\ stdout[Len(stdout)].kind = "msg"
      /\ stdout[Len(stdout)].text = renderMessage(cur[c].format, cur[c].args)

\* C19: a Logger from NewLogFile has the file sink enabled and no other,
\* one from NewLogConsole the console sink and no other; no step of any
\* call or of the flush task changes the flags, the path, the buffer
\* reference or the remote client; and the remote client never receives
\* an entry.
C19_OneSinkFixed ==
  /\ [](/\ enableConsole # enableFile
        /\ ~enableStackDriver
        /\ logStackdriver = "nil"
        /\ enableFile <=> bufferFile = "buffer"
        /\ enableFile <=> fpc # "none"
        /\ enableConsole => fileName = ""
        /\ remote = <<>>)
  /\ [][loggerVars' = loggerVars]_vars

\* Every call of the run has returned from a file-backed Logger, a
\* flush cycle has written, and the remote client has received nothing.
C19_Witness ==
  /\ enableFile /\ ~enableConsole /\ ~enableStackDriver
  /\ Cardinality(ReturnedIds) = MaxCalls
  /\ cycles # <<>>
  /\ remote = <<>>

\* The reading of the clock that a timestamp segment shows.
TimeTexts ==
  [t \in 0..MaxClock |-> formataTimePadraoLog(Instant(t)) \o ": "]
TimeOf(text) == CHOOSE t \in 0..MaxClock : text = TimeTexts[t]
\* The positions of the timestamp segments of segs.
TimesIn(segs) == {i \in DOMAIN segs : segs[i].kind = "time"}

\* C20: the lines are in the buffer in the order in which their calls
\* took the file lock: what the holder of the lock has appended is the
\* end of the buffer, after every line of the calls that held the lock
\* before.  So the lines of one caller are in the order of its calls,
\* and the timestamps, read under the lock from a clock that does not
\* run backwards, never decrease along the buffer, nor from one flush
\* cycle to the next.
C20_BufferInLockOrder ==
  /\ \A c \in Callers :
       InFileSink(c) =>
         \A i, j \in DOMAIN buffer :
           (buffer[i].call = cur[c].id /\ i <= j) => buffer[j].call = cur[c].id
  /\ (buffer # <<>> /\ buffer[Len(buffer)].kind # "nl") =>
       /\ muxFile \in Callers
       /\ buffer[Len(buffer)].call = cur[muxFile].id
  /\ LET all == EverAppended IN
       /\ \A i, j \in DOMAIN all :
            (i <= j /\ all[i].call[1] = all[j].call[1])
              => all[i].call[2] <= all[j].call[2]
       /\ \A i, j \in TimesIn(all) :
            i <= j => TimeOf(all[i].text) <= TimeOf(all[j].text)

\* The buffer holds the lines of two callers, the first stamped before
\* the clock advanced and the second after.
C20_Witness ==
  /\ Len(buffer) = 8
  /\ buffer[1].call[1] # buffer[5].call[1]
  /\ TimeOf(buffer[2].text) < TimeOf(buffer[6].text)

====
